---- MODULE Spec2Model ----
(***************************************************************************)
(* Content acquisition and batch orchestration of content_analyzer.        *)
(*                                                                         *)
(* Two specifications share the variables below.                           *)
(*   Spec       the batch schedulers: main.process_batch (mode "main")     *)
(*              and BatchProcessor.process_all (mode "batch"), with one    *)
(*              coroutine per URL of the running batch.  A fetch_content   *)
(*              call is one await whose result is one of FetchOutcomes.    *)
(*   SpecFetch  one call of ContentProcessor.fetch_content, one step per   *)
(*              browser call that can raise, selector wait or sleep.       *)
(*                                                                         *)
(* A text is modelled by its length; None is NoneV.                        *)
(*                                                                         *)
(* config.py sets USER_AGENTS, DELAY and BATCH_SIZE on instances only,     *)
(* while content_processor.py reads AppConfig.USER_AGENTS (through         *)
(* get_user_agent) and AppConfig.DEFAULT_DELAY on the class.  cfgDefined   *)
(* says whether the class carries these attributes: FALSE is config.py as  *)
(* it stands (the read raises AttributeError), TRUE a configuration where  *)
(* the read returns.                                                       *)
(***************************************************************************)
EXTENDS Integers, Sequences, FiniteSets, TLC

VARIABLES
    mode,          \* "main": main.process_batch, "batch": BatchProcessor.process_all
    cfgDefined,    \* AppConfig carries the class attributes the callers read
    urls,          \* the submitted URL list
    batch_size,    \* batch_size argument / self.batch_size
    spc,           \* position of the scheduler coroutine
    i,             \* loop variable of range(0, len(urls), batch_size)
    tpc,           \* position of the per-URL coroutine of each list position
    tres,          \* what the per-URL coroutine returned or raised
    results,       \* results / all_results
    delays,        \* number of asyncio.sleep calls between batches so far
    slept,         \* the duration of each of these sleeps, in tenths of a second
    fetched,       \* per position: what its fetch_content call returned
    metaCalls,     \* positions for which extract_metadata was invoked
    analyzeCalls,  \* positions for which analyze_content was invoked
    session,       \* per position: the browser session its fetch holds, 0 for none
    opened,        \* per position: number of browsers its fetch has launched
    \* ---- one fetch_content call (SpecFetch)
    fpc,           \* position of the fetch_content coroutine
    browser,       \* "none", "open", "closed" (browser.close), "killed" (driver stopped)
    context,       \* the browsing context, likewise
    attempt,       \* loop variable of range(max_retries)
    sel,           \* index in selectors of the selector waited for
    content,       \* the local variable content
    ret,           \* the value the call returns
    exc,           \* an exception is propagating to the outer handler
    browserExc,    \* a browser or navigation call has raised during the call
    sufficient,    \* the attempt loop was left by the break of line 93
    sweeps,        \* number of selector sweeps started
    sleeps,        \* number of asyncio.sleep(2) calls
    tried,         \* selectors waited for in the current sweep, in order
    seen,          \* what each of them gave: a text, or NoneV for no match
    sweepText,     \* content as tested at line 92, one entry per finished sweep
    navFailures,   \* number of navigations (goto, load-state wait) that raised
    passedOver,    \* a selector below the one that ended a sweep matched, at that
                   \* time, an element with more than MinLength characters
    \* ---- one analysis of fetched content (SpecAnalyze)
    apc,           \* "idle", "ready" (content at hand), "done" (metrics computed)
    atext,         \* the text: a sequence of words and whitespace
    amarkup,       \* the anchor elements of the markup, in document order
    sentiment,     \* the 'sentiment' metric
    links,         \* the 'links' metric
    \* ---- calls of extract_metadata and analyze_content on one content string
    \* (SpecDocument)
    doc,           \* the content string, as the element tree it parses to
    soup,          \* the BeautifulSoup object of the latest call, as the call left it
    clock,         \* datetime.now()
    metadata,      \* what each extract_metadata call returned or raised, in call order
    metrics        \* what each analyze_content call returned, in call order

schedVars == <<mode, cfgDefined, urls, batch_size, spc, i, tpc, tres, results,
               delays, slept, fetched, metaCalls, analyzeCalls, session, opened>>

fetchVars == <<fpc, browser, context, attempt, sel, content, ret, exc, browserExc,
               sufficient, sweeps, sleeps, tried, seen, sweepText, navFailures,
               passedOver>>

analyzeVars == <<apc, atext, amarkup, sentiment, links>>

docVars == <<doc, soup, clock, metadata, metrics>>

vars == <<schedVars, fetchVars, analyzeVars, docVars>>

\* ------------------------------------------------------------------ bounds
MaxUrls == 4
MaxBatch == 2

\* --------------------------------------------------------------- constants
NoneV == -1

\* `if content and len(content) > 100` (content_processor.py:92)
MinLength == 100

\* Lengths of the texts a page can yield: empty, the 40-character scenario,
\* exactly the threshold, just above it.
TextLens == {0, 40, MinLength, MinLength + 1}

\* ------------------------------------------------------- per-URL processing
\* Python truthiness of an Optional[str]: None and "" are falsy.
Truthy(c) == c /= NoneV /\ c > 0

\* What a fetch_content call can return: None, or the text the sweeps left in
\* content (SpecFetch reaches each of them).
FetchOutcomes == {NoneV} \cup TextLens

\* With config.py as it stands get_user_agent raises before the browser is
\* launched and fetch_content returns None.  Otherwise the schedulers follow
\* one outcome of each kind their code tells apart or records: None, the
\* empty text, and a text with its length, insufficient or sufficient.
PossibleOutcomes ==
    IF cfgDefined THEN FetchOutcomes \ {MinLength} ELSE {NoneV}

\* How the callers read the returned Optional[str]: a non-empty text is
\* content, None is what the exception handlers return (lines 133, 141), and
\* the empty text is what is left for a page that gave nothing (line 103).
ReturnClass(c) ==
    IF c = NoneV THEN "Failure" ELSE IF c = 0 THEN "Empty" ELSE "Success"

NoResult == [pending |-> TRUE]

IsException(r) == "exc" \in DOMAIN r

IsErrorRecord(r) == "error" \in DOMAIN r

\* Variant of FetchFailed: only None counts as a failed fetch.
FetchFailedOnlyNone(c) == c = NoneV

\* `if not content` (content_processor.py:491)
FetchFailed(c) == ~Truthy(c)

\* Variant of MainRecord: a failed fetch is reported with status "failed" and
\* without a message.
MainRecordNoMessage(url, c) ==
    IF Truthy(c)
    THEN [url |-> url, status |-> "success", length |-> c]
    ELSE [url |-> url, status |-> "failed"]

\* main.process_url lines 96-108
MainRecord(url, c) ==
    IF Truthy(c)
    THEN [url |-> url, status |-> "success", length |-> c]
    ELSE [url |-> url, status |-> "error", error |-> "No content extracted"]

\* ContentProcessor.process_url line 492
FetchErrorRecord(url) == [url |-> url, error |-> "Failed to fetch content"]

\* ContentProcessor.process_url lines 497-501
SuccessRecord(url) == [url |-> url, success |-> TRUE]

\* ------------------------------------------------------------- scheduling
Pos == 1..Len(urls)

\* urls[start:start + batch_size], as list positions
BatchPos(start) == {k \in Pos : start < k /\ k <= start + batch_size}

BatchLen(start) == Cardinality(BatchPos(start))

\* what asyncio.gather returns: one entry per task, in task order
Gathered(start) == [j \in 1..BatchLen(start) |-> tres[start + j]]

NotException(r) == ~IsException(r)

\* BatchProcessor.process_batch line 525
KeepResults(rs) == SelectSeq(rs, NotException)

NotErrorRecord(r) == ~IsErrorRecord(r)

\* Variant of BatchResults: error records are left out of the batch's results.
BatchResultsWithoutErrors(start) == SelectSeq(Gathered(start), NotErrorRecord)

BatchResults(start) ==
    IF mode = "batch" THEN KeepResults(Gathered(start)) ELSE Gathered(start)

\* Variant of CreateTasks: the first URL of the following batch is started
\* together with the batch.
CreateTasksAhead(start) ==
    [k \in Pos |-> IF start < k /\ k <= start + batch_size + 1
                   THEN "created" ELSE tpc[k]]

CreateTasks(start) ==
    [k \in Pos |-> IF k \in BatchPos(start) THEN "created" ELSE tpc[k]]

\* The delay argument of process_batch, its default of 2.0 seconds in tenths
\* of a second (main.py:117); AppConfig.DEFAULT_DELAY where it resolves.
DefaultDelay == 20

\* How long `await asyncio.sleep(delay)` lasts (main.py:134,
\* content_processor.py:540): the argument is passed as it is.
SleepDurations(d) == {d}

\* The statistics main() prints for the list process_batch returned
\* (main.py:185-187).
Successful == Cardinality({k \in 1..Len(results) : results[k].status = "success"})

Failed == Cardinality({k \in 1..Len(results) : results[k].status = "error"})

Total == Len(results)

\* The browser session steps (launch, new_context, new_page, goto and the
\* load-state wait, title, context.close, browser.close) return or raise.
\* get_user_agent is evaluated inside the launch call's arguments.
LaunchCanReturn == cfgDefined

\* Variant of FreshSession: every fetch uses one shared browser.
SharedSession == CHOOSE n \in 1..Len(urls) : TRUE

\* p.chromium.launch starts a new browser process, and new_context/new_page
\* create objects of that browser (lines 31-47): a session no running fetch
\* holds.
FreshSession ==
    CHOOSE n \in 1..Len(urls) :
        /\ \A k \in Pos : session[k] /= n
        /\ \A m \in 1..(n - 1) : \E k \in Pos : session[k] = m

\* No fetch_content call is followed step by step.
FetchIdle ==
    /\ fpc = "idle"
    /\ browser = "none"
    /\ context = "none"
    /\ attempt = 0
    /\ sel = 1
    /\ content = NoneV
    /\ ret = NoneV
    /\ exc = FALSE
    /\ browserExc = FALSE
    /\ sufficient = FALSE
    /\ sweeps = 0
    /\ sleeps = 0
    /\ tried = <<>>
    /\ seen = <<>>
    /\ sweepText = <<>>
    /\ navFailures = 0
    /\ passedOver = FALSE

\* No analysis is followed.
AnalyzeIdle ==
    /\ apc = "idle"
    /\ atext = <<>>
    /\ amarkup = <<>>
    /\ sentiment = "none"
    /\ links = <<>>

\* No BeautifulSoup object exists.
NoSoup == [tree |-> <<>>, live |-> {}, parsed |-> FALSE]

\* No call on a content string is followed.
DocIdle ==
    /\ doc = <<>>
    /\ soup = NoSoup
    /\ clock = 0
    /\ metadata = <<>>
    /\ metrics = <<>>

Init ==
    /\ mode \in {"main", "batch"}
    /\ cfgDefined \in BOOLEAN
    /\ \E n \in 0..MaxUrls : urls = [k \in 1..n |-> k]
    /\ batch_size \in 1..MaxBatch
    /\ spc = "start"
    /\ i = 0
    /\ tpc = [k \in Pos |-> "idle"]
    /\ tres = [k \in Pos |-> NoResult]
    /\ results = <<>>
    /\ delays = 0
    /\ slept = <<>>
    /\ fetched = [k \in Pos |-> NoneV]
    /\ metaCalls = {}
    /\ analyzeCalls = {}
    /\ session = [k \in Pos |-> 0]
    /\ opened = [k \in Pos |-> 0]
    /\ FetchIdle
    /\ AnalyzeIdle
    /\ DocIdle

\* Entry of process_batch / process_all up to the first gather.
Start ==
    /\ spc = "start"
    /\ IF Len(urls) = 0
       THEN spc' = "done" /\ tpc' = tpc
       ELSE spc' = "gather" /\ tpc' = CreateTasks(0)
    /\ UNCHANGED <<session, opened, slept, mode, cfgDefined, urls, batch_size, i, tres, results, delays,
                   fetched, metaCalls, analyzeCalls>>
    /\ UNCHANGED fetchVars
    /\ UNCHANGED analyzeVars
    /\ UNCHANGED docVars

\* The event loop runs a task of the gathered batch into fetch_content, up to
\* the launch of its browser (lines 29-40), which returns or raises.
TaskStart(k) ==
    /\ spc = "gather"
    /\ tpc[k] = "created"
    /\ tpc' = [tpc EXCEPT ![k] = "fetching"]
    /\ \/ /\ LaunchCanReturn
          /\ session' = [session EXCEPT ![k] = FreshSession]
          /\ opened' = [opened EXCEPT ![k] = @ + 1]
       \/ UNCHANGED <<session, opened>>
    /\ UNCHANGED <<slept, mode, cfgDefined, urls, batch_size, spc, i, tres, results,
                   delays, fetched, metaCalls, analyzeCalls>>
    /\ UNCHANGED fetchVars
    /\ UNCHANGED analyzeVars
    /\ UNCHANGED docVars

\* fetch_content returns to main.process_url, which builds its record.
MainFetched(k) ==
    /\ mode = "main"
    /\ tpc[k] = "fetching"
    /\ \E o \in PossibleOutcomes :
        /\ session[k] = 0 => o = NoneV
        /\ fetched' = [fetched EXCEPT ![k] = o]
        /\ tres' = [tres EXCEPT ![k] = MainRecord(urls[k], o)]
    /\ tpc' = [tpc EXCEPT ![k] = "done"]
    /\ session' = [session EXCEPT ![k] = 0]
    /\ UNCHANGED <<opened, slept, mode, cfgDefined, urls, batch_size, spc, i, results, delays,
                   metaCalls, analyzeCalls>>
    /\ UNCHANGED fetchVars
    /\ UNCHANGED analyzeVars
    /\ UNCHANGED docVars

\* fetch_content returns to ContentProcessor.process_url: `if not content`
\* returns the error record, otherwise extract_metadata is awaited.
BatchFetched(k) ==
    /\ mode = "batch"
    /\ tpc[k] = "fetching"
    /\ \E o \in PossibleOutcomes :
        /\ session[k] = 0 => o = NoneV
        /\ fetched' = [fetched EXCEPT ![k] = o]
        /\ IF FetchFailed(o)
           THEN /\ tres' = [tres EXCEPT ![k] = FetchErrorRecord(urls[k])]
                /\ tpc' = [tpc EXCEPT ![k] = "done"]
                /\ metaCalls' = metaCalls
           ELSE /\ tres' = tres
                /\ tpc' = [tpc EXCEPT ![k] = "metadata"]
                /\ metaCalls' = metaCalls \cup {k}
    /\ session' = [session EXCEPT ![k] = 0]
    /\ UNCHANGED <<opened, slept, mode, cfgDefined, urls, batch_size, spc, i, results, delays,
                   analyzeCalls>>
    /\ UNCHANGED fetchVars
    /\ UNCHANGED analyzeVars
    /\ UNCHANGED docVars

\* extract_metadata returns (analyze_content is awaited next) or raises; the
\* exception leaves process_url and becomes the task's outcome.
ExtractMetadata(k) ==
    /\ tpc[k] = "metadata"
    /\ \/ /\ tpc' = [tpc EXCEPT ![k] = "analysis"]
          /\ analyzeCalls' = analyzeCalls \cup {k}
          /\ tres' = tres
       \/ /\ tpc' = [tpc EXCEPT ![k] = "done"]
          /\ tres' = [tres EXCEPT ![k] = [exc |-> "extract_metadata"]]
          /\ analyzeCalls' = analyzeCalls
    /\ UNCHANGED <<session, opened, slept, mode, cfgDefined, urls, batch_size, spc, i, results, delays,
                   fetched, metaCalls>>
    /\ UNCHANGED fetchVars
    /\ UNCHANGED analyzeVars
    /\ UNCHANGED docVars

\* analyze_content returns (process_url returns the merged record) or raises.
AnalyzeContent(k) ==
    /\ tpc[k] = "analysis"
    /\ \/ tres' = [tres EXCEPT ![k] = SuccessRecord(urls[k])]
       \/ tres' = [tres EXCEPT ![k] = [exc |-> "analyze_content"]]
    /\ tpc' = [tpc EXCEPT ![k] = "done"]
    /\ UNCHANGED <<session, opened, slept, mode, cfgDefined, urls, batch_size, spc, i, results, delays,
                   fetched, metaCalls, analyzeCalls>>
    /\ UNCHANGED fetchVars
    /\ UNCHANGED analyzeVars
    /\ UNCHANGED docVars

\* gather returns once every task of the batch is done; the batch's results
\* are appended; with URLs left the inter-batch sleep is started, otherwise
\* the loop ends and the list is returned.  In mode "batch" the sleep's
\* argument is the class attribute AppConfig.DEFAULT_DELAY.
Join ==
    /\ spc = "gather"
    /\ \A k \in BatchPos(i) : tpc[k] = "done"
    /\ results' = results \o BatchResults(i)
    /\ IF i + batch_size < Len(urls)
       THEN IF mode = "batch" /\ ~cfgDefined
            THEN spc' = "raised" /\ delays' = delays /\ slept' = slept
            ELSE /\ spc' = "sleep"
                 /\ delays' = delays + 1
                 /\ \E x \in SleepDurations(DefaultDelay) : slept' = Append(slept, x)
       ELSE spc' = "done" /\ delays' = delays /\ slept' = slept
    /\ UNCHANGED <<session, opened, mode, cfgDefined, urls, batch_size, i, tpc, tres, fetched,
                   metaCalls, analyzeCalls>>
    /\ UNCHANGED fetchVars
    /\ UNCHANGED analyzeVars
    /\ UNCHANGED docVars

\* The inter-batch sleep returns; the loop takes the next start index and
\* gathers the next batch.
Wake ==
    /\ spc = "sleep"
    /\ i' = i + batch_size
    /\ tpc' = CreateTasks(i + batch_size)
    /\ spc' = "gather"
    /\ UNCHANGED <<session, opened, slept, mode, cfgDefined, urls, batch_size, tres, results, delays,
                   fetched, metaCalls, analyzeCalls>>
    /\ UNCHANGED fetchVars
    /\ UNCHANGED analyzeVars
    /\ UNCHANGED docVars

Next ==
    \/ Start
    \/ \E k \in Pos : TaskStart(k)
    \/ \E k \in Pos : MainFetched(k)
    \/ \E k \in Pos : BatchFetched(k)
    \/ \E k \in Pos : ExtractMetadata(k)
    \/ \E k \in Pos : AnalyzeContent(k)
    \/ Join
    \/ Wake

Spec == Init /\ [][Next]_vars

\* ------------------------------------------------- fetch_content, stepwise
\* max_retries (content_processor.py:59)
MaxRetries == 3

\* Variant of Selectors: article and body change places.
SelectorsBodyFirst ==
    <<".article-body", ".article-content", ".content-section", ".main-content",
      "#main-content", "body", "article">>

\* selectors (content_processor.py:67-75)
Selectors ==
    <<".article-body", ".article-content", ".content-section", ".main-content",
      "#main-content", "article", "body">>

\* What one pass of the try body of lines 80-86 gives: the element's text, or
\* NoneV when wait_for_selector (or text_content) raised.
SelectorResults == {NoneV} \cup TextLens

\* Variant of Sufficient: a text of exactly MinLength characters is enough.
SufficientAtThreshold(c) == Truthy(c) /\ c >= MinLength

\* line 92
Sufficient(c) == Truthy(c) /\ c > MinLength

\* Leaving the attempt loop: line 107 takes len(content), a TypeError when
\* content is None, which the handler of line 130 turns into `return None`;
\* the finally clause then awaits context.close().  Otherwise page.title()
\* of line 109 is awaited.
AfterLoop(c) ==
    IF c = NoneV
    THEN /\ fpc' = "close_context"
         /\ ret' = NoneV
    ELSE /\ fpc' = "title"
         /\ ret' = ret

\* Line 92 at the end of a sweep: break out of the attempt loop, or start the
\* sleep of line 97.
EndOfSweep(c) ==
    /\ sweepText' = Append(sweepText, c)
    /\ IF Sufficient(c)
       THEN /\ sufficient' = TRUE
            /\ sleeps' = sleeps
            /\ AfterLoop(c)
       ELSE /\ sufficient' = sufficient
            /\ sleeps' = sleeps + 1
            /\ fpc' = "retry_sleep"
            /\ ret' = ret

\* The break of line 87 leaves the selector loop at the first match, so the
\* selectors after it are not waited for in this sweep: whether one of them
\* matches an element with more than MinLength characters.
NotWaitedFor(n) == IF n < Len(Selectors) THEN BOOLEAN ELSE {FALSE}

InitFetch ==
    /\ mode = "main"
    /\ cfgDefined \in BOOLEAN
    /\ urls = <<1>>
    /\ batch_size = 1
    /\ spc = "fetch"
    /\ i = 0
    /\ tpc = [k \in Pos |-> "fetching"]
    /\ tres = [k \in Pos |-> NoResult]
    /\ results = <<>>
    /\ delays = 0
    /\ slept = <<>>
    /\ fetched = [k \in Pos |-> NoneV]
    /\ metaCalls = {}
    /\ analyzeCalls = {}
    /\ session = [k \in Pos |-> 0]
    /\ opened = [k \in Pos |-> 0]
    /\ fpc = "launch"
    /\ browser = "none"
    /\ context = "none"
    /\ attempt = 0
    /\ sel = 1
    /\ content = NoneV
    /\ ret = NoneV
    /\ exc = FALSE
    /\ browserExc = FALSE
    /\ sufficient = FALSE
    /\ sweeps = 0
    /\ sleeps = 0
    /\ tried = <<>>
    /\ seen = <<>>
    /\ sweepText = <<>>
    /\ navFailures = 0
    /\ passedOver = FALSE
    /\ AnalyzeIdle
    /\ DocIdle

\* Lines 29-40: the driver is started and chromium launched; a raise leaves
\* the `async with` block and reaches the handler of line 139.
Launch ==
    /\ fpc = "launch"
    /\ \/ /\ LaunchCanReturn
          /\ browser' = "open"
          /\ fpc' = "new_context"
          /\ UNCHANGED <<exc, browserExc>>
       \/ /\ browser' = browser
          /\ fpc' = "exit"
          /\ exc' = TRUE
          /\ browserExc' = TRUE
    /\ UNCHANGED <<context, attempt, sel, content, ret, sufficient, sweeps,
                   sleeps, tried, seen, sweepText>>
    /\ UNCHANGED navFailures
    /\ UNCHANGED passedOver
    /\ UNCHANGED schedVars
    /\ UNCHANGED analyzeVars
    /\ UNCHANGED docVars

\* Lines 43-46: browser.new_context.  It is outside the try of line 49.
NewContext ==
    /\ fpc = "new_context"
    /\ \/ /\ context' = "open"
          /\ fpc' = "new_page"
          /\ UNCHANGED <<exc, browserExc>>
       \/ /\ context' = context
          /\ fpc' = "exit"
          /\ exc' = TRUE
          /\ browserExc' = TRUE
    /\ UNCHANGED <<browser, attempt, sel, content, ret, sufficient, sweeps,
                   sleeps, tried, seen, sweepText>>
    /\ UNCHANGED navFailures
    /\ UNCHANGED passedOver
    /\ UNCHANGED schedVars
    /\ UNCHANGED analyzeVars
    /\ UNCHANGED docVars

\* Line 47: context.new_page, also outside the try of line 49.
NewPage ==
    /\ fpc = "new_page"
    /\ \/ /\ fpc' = "goto"
          /\ UNCHANGED <<exc, browserExc>>
       \/ /\ fpc' = "exit"
          /\ exc' = TRUE
          /\ browserExc' = TRUE
    /\ UNCHANGED <<browser, context, attempt, sel, content, ret, sufficient,
                   sweeps, sleeps, tried, seen, sweepText>>
    /\ UNCHANGED navFailures
    /\ UNCHANGED passedOver
    /\ UNCHANGED schedVars
    /\ UNCHANGED analyzeVars
    /\ UNCHANGED docVars

\* Lines 51-62: goto, title and the network-idle wait, then content = None and
\* the first sweep starts.  A raise is caught at line 130: return None, and
\* the finally clause runs.
Navigate ==
    /\ fpc = "goto"
    /\ \/ /\ fpc' = "selector"
          /\ content' = NoneV
          /\ attempt' = 0
          /\ sel' = 1
          /\ sweeps' = 1
          /\ tried' = <<>>
          /\ seen' = <<>>
          /\ UNCHANGED <<ret, browserExc, navFailures>>
       \/ /\ fpc' = "close_context"
          /\ ret' = NoneV
          /\ browserExc' = TRUE
          /\ navFailures' = navFailures + 1
          /\ UNCHANGED <<content, attempt, sel, sweeps, tried, seen>>
    /\ UNCHANGED <<browser, context, exc, sufficient, sleeps, sweepText>>
    /\ UNCHANGED passedOver
    /\ UNCHANGED schedVars
    /\ UNCHANGED analyzeVars
    /\ UNCHANGED docVars

\* Lines 77-97: one selector of the sweep.  A text ends the selector loop
\* (break of line 87); a raise is swallowed by the bare except and the loop
\* goes on to the next selector; after the loop line 92 is evaluated.
TrySelector ==
    /\ fpc = "selector"
    /\ \E r \in SelectorResults :
        /\ tried' = Append(tried, Selectors[sel])
        /\ seen' = Append(seen, r)
        /\ IF r /= NoneV
           THEN /\ content' = r
                /\ sel' = sel
                /\ EndOfSweep(r)
                /\ \E u \in NotWaitedFor(sel) : passedOver' = (passedOver \/ u)
           ELSE /\ content' = content
                /\ passedOver' = passedOver
                /\ IF sel < Len(Selectors)
                   THEN /\ sel' = sel + 1
                        /\ UNCHANGED <<fpc, ret, sufficient, sleeps, sweepText>>
                   ELSE /\ sel' = sel
                        /\ EndOfSweep(content)
    /\ UNCHANGED <<browser, context, attempt, exc, browserExc, sweeps>>
    /\ UNCHANGED navFailures
    /\ UNCHANGED schedVars
    /\ UNCHANGED analyzeVars
    /\ UNCHANGED docVars

\* Variant of RetrySleepDone: the sweep is repeated until it is sufficient
\* (`while True` in place of `for attempt in range(max_retries)`).
RetrySleepUnbounded ==
    /\ fpc = "retry_sleep"
    /\ attempt' = attempt + 1
    /\ sel' = 1
    /\ sweeps' = sweeps + 1
    /\ tried' = <<>>
    /\ seen' = <<>>
    /\ fpc' = "selector"
    /\ UNCHANGED <<browser, context, content, ret, exc, browserExc, sufficient,
                   sleeps, sweepText, navFailures, passedOver>>
    /\ UNCHANGED schedVars
    /\ UNCHANGED analyzeVars
    /\ UNCHANGED docVars

\* The sleep of line 97 returns: the next attempt's sweep starts, or the
\* attempt loop is exhausted.
RetrySleepDone ==
    /\ fpc = "retry_sleep"
    /\ IF attempt + 1 < MaxRetries
       THEN /\ attempt' = attempt + 1
            /\ sel' = 1
            /\ sweeps' = sweeps + 1
            /\ tried' = <<>>
            /\ seen' = <<>>
            /\ fpc' = "selector"
            /\ ret' = ret
       ELSE /\ AfterLoop(content)
            /\ UNCHANGED <<attempt, sel, sweeps, tried, seen>>
    /\ UNCHANGED <<browser, context, content, exc, browserExc, sufficient,
                   sleeps, sweepText>>
    /\ UNCHANGED navFailures
    /\ UNCHANGED passedOver
    /\ UNCHANGED schedVars
    /\ UNCHANGED analyzeVars
    /\ UNCHANGED docVars

\* Lines 109-128: page.title(), the page-structure evaluation (its exceptions
\* are caught at line 125) and `return content`; a raise of page.title() is
\* caught at line 130.  The finally clause runs next.
Title ==
    /\ fpc = "title"
    /\ \/ /\ ret' = content
          /\ browserExc' = browserExc
       \/ /\ ret' = NoneV
          /\ browserExc' = TRUE
    /\ fpc' = "close_context"
    /\ UNCHANGED <<browser, context, attempt, sel, content, exc, sufficient,
                   sweeps, sleeps, tried, seen, sweepText>>
    /\ UNCHANGED navFailures
    /\ UNCHANGED passedOver
    /\ UNCHANGED schedVars
    /\ UNCHANGED analyzeVars
    /\ UNCHANGED docVars

\* Line 136: context.close().  A raise leaves the finally clause, skips
\* browser.close() and replaces the pending return.
CloseContext ==
    /\ fpc = "close_context"
    /\ \/ /\ context' = "closed"
          /\ fpc' = "close_browser"
          /\ UNCHANGED <<exc, browserExc>>
       \/ /\ context' = context
          /\ fpc' = "exit"
          /\ exc' = TRUE
          /\ browserExc' = TRUE
    /\ UNCHANGED <<browser, attempt, sel, content, ret, sufficient, sweeps,
                   sleeps, tried, seen, sweepText>>
    /\ UNCHANGED navFailures
    /\ UNCHANGED passedOver
    /\ UNCHANGED schedVars
    /\ UNCHANGED analyzeVars
    /\ UNCHANGED docVars

\* Line 137: browser.close().
CloseBrowser ==
    /\ fpc = "close_browser"
    /\ \/ /\ browser' = "closed"
          /\ UNCHANGED <<exc, browserExc>>
       \/ /\ browser' = browser
          /\ exc' = TRUE
          /\ browserExc' = TRUE
    /\ fpc' = "exit"
    /\ UNCHANGED <<context, attempt, sel, content, ret, sufficient, sweeps,
                   sleeps, tried, seen, sweepText>>
    /\ UNCHANGED navFailures
    /\ UNCHANGED passedOver
    /\ UNCHANGED schedVars
    /\ UNCHANGED analyzeVars
    /\ UNCHANGED docVars

\* Variant of AfterDriverStop: stopping the driver leaves the session open.
DriverStopLeavesOpen(s) == s

\* The session objects once the Playwright driver has stopped: the driver
\* takes down the browsers it launched, and their contexts with them.
AfterDriverStop(s) == IF s = "open" THEN "killed" ELSE s

\* Variant of ReturnAtExit: the value of the pending return statement is
\* returned whether or not an exception left the block.
ReturnAtExitKeepsPending(e, r) == r

\* Lines 139-141: an exception that leaves the `async with` block is caught
\* by the outer handler, which returns None; otherwise the value of the
\* return statement executed inside the block is returned.
ReturnAtExit(e, r) == IF e THEN NoneV ELSE r

\* Leaving `async with async_playwright()` (line 29) stops the driver; a
\* propagating exception then reaches line 139: return None.
PlaywrightExit ==
    /\ fpc = "exit"
    /\ browser' = AfterDriverStop(browser)
    /\ context' = AfterDriverStop(context)
    /\ ret' = ReturnAtExit(exc, ret)
    /\ exc' = FALSE
    /\ fpc' = "returned"
    /\ UNCHANGED <<attempt, sel, content, browserExc, sufficient, sweeps, sleeps,
                   tried, seen, sweepText>>
    /\ UNCHANGED navFailures
    /\ UNCHANGED passedOver
    /\ UNCHANGED schedVars
    /\ UNCHANGED analyzeVars
    /\ UNCHANGED docVars

NextFetch ==
    \/ Launch
    \/ NewContext
    \/ NewPage
    \/ Navigate
    \/ TrySelector
    \/ RetrySleepDone
    \/ Title
    \/ CloseContext
    \/ CloseBrowser
    \/ PlaywrightExit

SpecFetch == InitFetch /\ [][NextFetch]_vars

\* The outcome a finished call stands for.
FetchKind ==
    IF browserExc THEN "Failure" ELSE IF sufficient THEN "Success" ELSE "Empty"

\* ------------------------------------------------- analyze_content, metrics
\* SpecAnalyze follows one analysis of fetched content.  The text is a
\* sequence of pieces, each a word as written or one whitespace character;
\* the markup is the sequence of its anchor elements, an href being the
\* sequence of its characters.
MaxPieces == 5
MaxAnchors == 2

Whitespace == {" ", "\n"}

Pieces == {"great", "Great", "bad", "BAD", "fine", "great."} \cup Whitespace

Texts == UNION {[1..n -> Pieces] : n \in 0..MaxPieces}

\* str.lower() of one piece.
LowerPiece(p) ==
    CASE p = "Great" -> "great"
      [] p = "BAD"   -> "bad"
      [] OTHER       -> p

\* str.lower() of a text.
Lower(t) == [p \in 1..Len(t) |-> LowerPiece(t[p])]

\* The token made of a run of adjacent pieces: the piece itself when alone,
\* else the concatenation, which is none of the pieces.
Token(run) == IF Len(run) = 1 THEN run[1] ELSE "(joined)"

RECURSIVE SplitFrom(_, _, _, _)
SplitFrom(t, p, run, acc) ==
    IF p > Len(t)
        THEN IF run = <<>> THEN acc ELSE Append(acc, Token(run))
        ELSE IF t[p] \in Whitespace
                 THEN SplitFrom(t, p + 1, <<>>,
                                IF run = <<>> THEN acc ELSE Append(acc, Token(run)))
                 ELSE SplitFrom(t, p + 1, Append(run, t[p]), acc)

\* str.split(): the maximal runs without whitespace, in order.
Split(t) == SplitFrom(t, 1, <<>>, <<>>)

positive_words == {"good", "great", "excellent", "best", "amazing"}

negative_words == {"bad", "poor", "terrible", "worst", "awful"}

RECURSIVE CountIn(_, _)
\* sum(1 for word in words if word in lexicon)
CountIn(words, lexicon) ==
    IF words = <<>>
        THEN 0
        ELSE (IF Head(words) \in lexicon THEN 1 ELSE 0) + CountIn(Tail(words), lexicon)

GetBasicSentimentTiesPositive(t) ==
    LET positive_count == CountIn(Split(Lower(t)), positive_words)
        negative_count == CountIn(Split(Lower(t)), negative_words)
    IN  IF positive_count >= negative_count THEN "positive" ELSE "negative"

GetBasicSentiment(t) ==
    LET positive_count == CountIn(Split(Lower(t)), positive_words)
        negative_count == CountIn(Split(Lower(t)), negative_words)
    IN  IF positive_count > negative_count
            THEN "positive"
            ELSE IF negative_count > positive_count THEN "negative" ELSE "neutral"

\* href values: two http(s) URLs, a site-relative path, a relative path that
\* begins with the letters http, and a URL of another scheme.
Hrefs ==
    { <<"h", "t", "t", "p", ":", "/", "/", "a">>,
      <<"h", "t", "t", "p", "s", ":", "/", "/", "b">>,
      <<"/", "d">>,
      <<"h", "t", "t", "p", "d">>,
      <<"f", "t", "p", ":", "/", "/", "c">> }

\* An anchor element: whether it carries an href attribute, the attribute's
\* value, and whether it lies inside a script, style, nav or footer element.
Anchors ==
    [hasHref : {TRUE}, href : Hrefs, inStripped : BOOLEAN]
        \cup [hasHref : {FALSE}, href : {<<>>}, inStripped : {FALSE}]

Markups == UNION {[1..n -> Anchors] : n \in 0..MaxAnchors}

\* str.startswith(prefix)
StartsWith(h, prefix) ==
    /\ Len(h) >= Len(prefix)
    /\ SubSeq(h, 1, Len(prefix)) = prefix

\* _extract_text decomposes the script, style, nav and footer elements of the
\* soup, and what they contain, before the soup is searched for anchors.
Decomposed(m) == SelectSeq(m, LAMBDA a : ~a.inStripped)

RECURSIVE ExtractLinks(_)
ExtractLinks(m) ==
    IF m = <<>>
        THEN <<>>
        ELSE LET link == Head(m)
                 rest == ExtractLinks(Tail(m))
             IN  IF link.hasHref /\ StartsWith(link.href, <<"h", "t", "t", "p">>)
                     THEN <<link.href>> \o rest
                     ELSE rest

InitAnalyze ==
    /\ mode = "main"
    /\ cfgDefined \in BOOLEAN
    /\ urls = <<>>
    /\ batch_size = 1
    /\ spc = "analyze"
    /\ i = 0
    /\ tpc = <<>>
    /\ tres = <<>>
    /\ results = <<>>
    /\ delays = 0
    /\ slept = <<>>
    /\ fetched = <<>>
    /\ metaCalls = {}
    /\ analyzeCalls = {}
    /\ session = <<>>
    /\ opened = <<>>
    /\ FetchIdle
    /\ apc = "ready"
    /\ \/ atext \in Texts /\ amarkup = <<>>
       \/ atext = <<>> /\ amarkup \in Markups
    /\ sentiment = "none"
    /\ links = <<>>
    /\ DocIdle

\* analyze_content: the soup is stripped by _extract_text, then searched for
\* links; the sentiment comes from the basic analysis of the text.
AnalyzeMarkup ==
    /\ apc = "ready"
    /\ links' = ExtractLinks(Decomposed(amarkup))
    /\ sentiment' = GetBasicSentiment(atext)
    /\ apc' = "done"
    /\ UNCHANGED <<atext, amarkup>>
    /\ UNCHANGED schedVars
    /\ UNCHANGED fetchVars
    /\ UNCHANGED docVars

NextAnalyze == AnalyzeMarkup

SpecAnalyze == InitAnalyze /\ [][NextAnalyze]_vars

\* ------------------------------------- extract_metadata and analyze_content
\* SpecDocument follows calls of extract_metadata and analyze_content, each
\* at most twice and in any order, on one content string.  The string is
\* modelled by the element tree html.parser builds from it: the elements in
\* document order, each with the index of its parent (0 for the document).
\* A text is the sequence of its characters.
MaxNodes == 3

\* An element: tag, class attribute, own text, and for a meta element the
\* name attribute and the content attribute if it has one.
El(tag, cls, text) ==
    [tag |-> tag, cls |-> cls, text |-> text, name |-> "", hasContent |-> FALSE,
     content |-> <<>>]

Meta(name, hasContent, value) ==
    [tag |-> "meta", cls |-> {}, text |-> <<>>, name |-> name,
     hasContent |-> hasContent, content |-> value]

Kinds ==
    { El("nav", {}, <<>>),
      El("div", {"breadcrumb"}, <<>>),
      El("div", {"nav-breadcrumb"}, <<>>),
      El("a", {}, <<" ", "H", " ">>),
      El("a", {}, <<"D">>),
      El("a", {}, <<" ">>),
      El("h2", {}, <<"S">>),
      El("img", {}, <<>>),
      El("title", {}, <<"T", "\n">>),
      Meta("description", TRUE, <<" ", "d">>),
      Meta("description", FALSE, <<>>),
      Meta("keywords", TRUE, <<"k">>) }

\* The elements that have child elements in the trees considered.
CanContain(kind) == kind.tag \in {"nav", "div"}

RECURSIVE AncestorsIn(_, _)
\* The ancestors of position n under the parent function ps.
AncestorsIn(ps, n) ==
    IF n = 0 \/ ps[n] = 0 THEN {} ELSE {ps[n]} \cup AncestorsIn(ps, ps[n])

\* Parent functions of n elements listed in document order: an element's
\* parent is the document, the element before it, or an ancestor of that one.
Shapes(n) ==
    {ps \in [1..n -> 0..(n - 1)] :
        \A k \in 1..n :
            /\ ps[k] < k
            /\ ps[k] = 0 \/ ps[k] = k - 1 \/ ps[k] \in AncestorsIn(ps, k - 1)}

\* The ancestors of element n of a tree.
Ancestors(tree, n) == AncestorsIn([k \in 1..Len(tree) |-> tree[k].parent], n)

RECURSIVE InOrder(_)
\* The positions of a set in document order.
InOrder(S) ==
    IF S = {}
        THEN <<>>
        ELSE LET m == CHOOSE x \in S : \A y \in S : x <= y
             IN  <<m>> \o InOrder(S \ {m})

RECURSIVE LStrip(_)
LStrip(t) == IF t /= <<>> /\ Head(t) \in Whitespace THEN LStrip(Tail(t)) ELSE t

RECURSIVE RStrip(_)
RStrip(t) ==
    IF t /= <<>> /\ t[Len(t)] \in Whitespace
        THEN RStrip(SubSeq(t, 1, Len(t) - 1))
        ELSE t

\* str.strip()
Strip(t) == RStrip(LStrip(t))

\* Variant of Parse: a soup built by an earlier call is used again.
ParseShared(c) ==
    IF soup.parsed THEN soup ELSE [tree |-> c, live |-> 1..Len(c), parsed |-> TRUE]

\* BeautifulSoup(content, 'html.parser') (lines 329, 379): a new tree, all of
\* whose elements are in place, is built from the string at every call.
Parse(c) == [tree |-> c, live |-> 1..Len(c), parsed |-> TRUE]

\* find_all below an element (root = 0: below the soup), in document order.
FindAll(s, root, matching) ==
    InOrder({n \in s.live :
                /\ root = 0 \/ root \in Ancestors(s.tree, n)
                /\ s.tree[n].kind \in matching})

\* find: the first match, 0 standing for None.
Find(s, matching) ==
    LET found == FindAll(s, 0, matching) IN IF found = <<>> THEN 0 ELSE Head(found)

\* soup(['script', 'style', 'nav', 'footer']) (line 456)
Unwanted == {"script", "style", "nav", "footer"}

\* _extract_text, lines 455-457: every unwanted element is decomposed, which
\* takes it and all it contains out of the soup.
DecomposeUnwanted(s) ==
    [s EXCEPT !.live =
        {n \in s.live :
            /\ s.tree[n].kind.tag \notin Unwanted
            /\ \A m \in Ancestors(s.tree, n) : s.tree[m].kind.tag \notin Unwanted}]

Headings == {kind \in Kinds : kind.tag \in {"h1", "h2", "h3", "h4", "h5", "h6"}}

Images == {kind \in Kinds : kind.tag = "img"}

AnchorElements == {kind \in Kinds : kind.tag = "a"}

Titles == {kind \in Kinds : kind.tag = "title"}

MetaDescriptions == {kind \in Kinds : kind.tag = "meta" /\ kind.name = "description"}

\* select('.breadcrumb, .nav-breadcrumb')
CrumbContainers == {kind \in Kinds : kind.cls \cap {"breadcrumb", "nav-breadcrumb"} /= {}}

CountSections(s) == Len(FindAll(s, 0, Headings))

CountImages(s) == Len(FindAll(s, 0, Images))

ExtractTitle(s) ==
    LET title == Find(s, Titles)
    IN  IF title /= 0 THEN Strip(s.tree[title].kind.text) ELSE <<>>

\* What reading a missing attribute gives: the lookup raises KeyError.
KeyError == <<"KeyError">>

\* meta_desc['content']
ContentAttr(kind) == IF kind.hasContent THEN kind.content ELSE KeyError

\* Variant of ExtractDescription: the content attribute is read without the
\* test `'content' in meta_desc.attrs`.
ExtractDescriptionUnchecked(s) ==
    LET meta_desc == Find(s, MetaDescriptions)
    IN  IF meta_desc /= 0
            THEN LET v == ContentAttr(s.tree[meta_desc].kind)
                 IN  IF v = KeyError THEN KeyError ELSE Strip(v)
            ELSE <<>>

ExtractDescription(s) ==
    LET meta_desc == Find(s, MetaDescriptions)
    IN  IF meta_desc /= 0 /\ s.tree[meta_desc].kind.hasContent
            THEN LET v == ContentAttr(s.tree[meta_desc].kind)
                 IN  IF v = KeyError THEN KeyError ELSE Strip(v)
            ELSE <<>>

RECURSIVE LinkTexts(_, _)
\* The inner loop of _extract_breadcrumbs, lines 366-369.
LinkTexts(s, found) ==
    IF found = <<>>
        THEN <<>>
        ELSE LET text == Strip(s.tree[Head(found)].kind.text)
             IN  (IF text /= <<>> THEN <<text>> ELSE <<>>) \o LinkTexts(s, Tail(found))

RECURSIVE CrumbsOf(_, _)
\* The outer loop, line 365: every selected element in turn.
CrumbsOf(s, elements) ==
    IF elements = <<>>
        THEN <<>>
        ELSE LinkTexts(s, FindAll(s, Head(elements), AnchorElements))
                 \o CrumbsOf(s, Tail(elements))

ExtractBreadcrumbs(s) == CrumbsOf(s, FindAll(s, 0, CrumbContainers))

\* extract_metadata on a soup at time now: the record of lines 340-346, or the
\* exception one of the extractions raised.
MetadataOf(s, now) ==
    IF ExtractDescription(s) = KeyError
        THEN [exc |-> "KeyError"]
        ELSE [title |-> ExtractTitle(s),
              description |-> ExtractDescription(s),
              breadcrumbs |-> ExtractBreadcrumbs(s),
              url |-> "self.url",
              timestamp |-> now]

\* The metrics analyze_content counts on the soup (lines 386-387).
MetricsOf(s) ==
    [section_count |-> CountSections(s), image_count |-> CountImages(s)]

InitDocument ==
    /\ mode = "main"
    /\ cfgDefined = FALSE
    /\ urls = <<>>
    /\ batch_size = 1
    /\ spc = "document"
    /\ i = 0
    /\ tpc = <<>>
    /\ tres = <<>>
    /\ results = <<>>
    /\ delays = 0
    /\ slept = <<>>
    /\ fetched = <<>>
    /\ metaCalls = {}
    /\ analyzeCalls = {}
    /\ session = <<>>
    /\ opened = <<>>
    /\ FetchIdle
    /\ AnalyzeIdle
    /\ \E n \in 0..MaxNodes :
          \E ps \in Shapes(n) :
              \E ks \in [1..n -> Kinds] :
                  /\ \A k \in 1..n : ps[k] /= 0 => CanContain(ks[ps[k]])
                  /\ doc = [k \in 1..n |-> [kind |-> ks[k], parent |-> ps[k]]]
    /\ soup = NoSoup
    /\ clock = 0
    /\ metadata = <<>>
    /\ metrics = <<>>

\* One call of extract_metadata (lines 327-346).
CallExtractMetadata ==
    /\ spc = "document"
    /\ Len(metadata) < 2
    /\ soup' = Parse(doc)
    /\ metadata' = Append(metadata, MetadataOf(soup', clock))
    /\ clock' = clock + 1
    /\ UNCHANGED <<doc, metrics>>
    /\ UNCHANGED schedVars
    /\ UNCHANGED fetchVars
    /\ UNCHANGED analyzeVars

\* One call of analyze_content (lines 377-394): _extract_text strips the
\* soup, then the sections and images of the same soup are counted.
CallAnalyzeContent ==
    /\ spc = "document"
    /\ Len(metrics) < 2
    /\ soup' = DecomposeUnwanted(Parse(doc))
    /\ metrics' = Append(metrics, MetricsOf(soup'))
    /\ clock' = clock + 1
    /\ UNCHANGED <<doc, metadata>>
    /\ UNCHANGED schedVars
    /\ UNCHANGED fetchVars
    /\ UNCHANGED analyzeVars

NextDocument ==
    \/ CallExtractMetadata
    \/ CallAnalyzeContent

SpecDocument == InitDocument /\ [][NextDocument]_vars

\* ------------------------------------------------------------- termination
\* SpecTerminates follows a run of main.process_batch, or one fetch_content
\* call, under the proviso that every awaited step returns or raises in the
\* end: the event loop resumes a coroutine whose await has completed, and
\* every browser wait carries a timeout (lines 51, 56, 82).
MainNext ==
    \/ Start
    \/ \E k \in Pos : TaskStart(k)
    \/ \E k \in Pos : MainFetched(k)
    \/ Join
    \/ Wake

InitTerminates ==
    \/ Init /\ mode = "main"
    \/ InitFetch

NextTerminates ==
    \/ spc = "fetch" /\ NextFetch
    \/ spc /= "fetch" /\ MainNext

SpecTerminates ==
    InitTerminates /\ [][NextTerminates]_vars /\ WF_vars(NextTerminates)

\* ================================================================ claims
HasFetched(k) == tpc[k] \in {"metadata", "analysis", "done"}

RunReturned == spc = "done"

RunEnded == spc \in {"done", "raised"}

\* ceil(n / b)
CeilDiv(n, b) == (n + b - 1) \div b

\* C1: a scheduler run returns exactly one result per submitted URL: the
\* returned list is as long as the URL list.
C1_OneResultPerUrl == RunReturned => Len(results) = Len(urls)

\* C2: the i-th element of the returned list is the result for the i-th
\* input URL.
C2_ResultOrder ==
    RunReturned => \A k \in 1..Len(results) : results[k].url = urls[k]

\* C3: when a per-URL call of a batch raised, the aggregated list holds an
\* error record for that URL.
C3_ExceptionSurfaces ==
    RunReturned =>
        \A k \in Pos :
            IsException(tres[k]) =>
                \E j \in 1..Len(results) :
                    results[j].url = urls[k] /\ IsErrorRecord(results[j])

\* C4: a fetch whose 3 sweeps all ended without text longer than 100
\* characters, no browser call having raised, returns the Empty outcome:
\* neither a text handed on as content nor the None of a failure.
C4_ExhaustedIsEmpty ==
    (fpc = "returned" /\ ~browserExc /\ ~sufficient /\ Len(sweepText) = 3)
        => ReturnClass(ret) = "Empty"

C6_EmptyDistinctFromFailure ==
    \A j, k \in Pos :
        (/\ tpc[j] = "done" /\ tpc[k] = "done"
         /\ ReturnClass(fetched[j]) = "Empty"
         /\ ReturnClass(fetched[k]) = "Failure"
         /\ IsErrorRecord(tres[j]) /\ IsErrorRecord(tres[k]))
            => tres[j].error /= tres[k].error

\* The priority order of the selectors.
PriorityOrder ==
    <<".article-body", ".article-content", ".content-section", ".main-content",
      "#main-content", "article", "body">>

\* C7: in every sweep the selectors are waited for in the priority order; a
\* selector without a match is skipped and the fetch goes on; the sweep stops
\* at the first selector that matches and content is that selector's text;
\* when only body matched, the text is body's.
C7_SelectorOrder ==
    /\ Len(tried) <= 7
    /\ Len(seen) = Len(tried)
    /\ \A j \in 1..Len(tried) : tried[j] = PriorityOrder[j]
    /\ \A j \in 1..Len(seen) :
          /\ j < Len(seen) => seen[j] = NoneV
          /\ seen[j] /= NoneV => (j = Len(seen) /\ content = seen[j])
          /\ (seen[j] = NoneV /\ j = Len(seen) /\ j < 7) =>
                (fpc = "selector" /\ sel = j + 1 /\ ~browserExc)
    /\ (Len(seen) = 7 /\ seen[7] /= NoneV) =>
          (tried[7] = "body" /\ content = seen[7])

C7_Witness ==
    /\ Len(seen) = 7
    /\ seen[7] = 101
    /\ tried[7] = "body"
    /\ content = 101
    /\ fpc = "returned"
    /\ ret = 101

\* C8: a fetch performs at most 3 sweeps, none after the first sweep that
\* ended with text longer than 100 characters; a sweep that ended with text
\* of exactly 100 characters is followed by the retry sleep and, unless it was
\* the third, by another sweep.
C8_SweepBound ==
    /\ sweeps <= 3
    /\ Len(sweepText) <= sweeps
    /\ sweeps <= Len(sweepText) + 1
    /\ \A j \in 1..Len(sweepText) :
          /\ sweepText[j] > 100 =>
                (/\ j = Len(sweepText)
                 /\ sweeps = j
                 /\ fpc \notin {"selector", "retry_sleep"})
          /\ (sweepText[j] = 100 /\ j < 3) =>
                (sweeps > j \/ fpc = "retry_sleep")

C8_Witness ==
    /\ fpc = "returned"
    /\ sweepText = <<100, 100, 101>>
    /\ sweeps = 3
    /\ ret = 101

C10_InterBatchDelays ==
    RunEnded =>
        delays = (IF Len(urls) = 0 THEN 0 ELSE CeilDiv(Len(urls), batch_size) - 1)

\* A finished fetch_content call returned one of FetchOutcomes.
FetchReturnsOutcome == fpc = "returned" => ret \in FetchOutcomes


\* A per-URL task that was created by gather and has not finished.
Running(k) == tpc[k] \in {"created", "fetching", "metadata", "analysis"}

\* C11: the tasks in progress all belong to the batch at the loop index and
\* number at most batch_size; while one of them is in progress every task of
\* the earlier batches has finished, one inter-batch sleep has been performed
\* and has returned for each earlier batch, and no task of a later batch has
\* been started.
C11_BatchIsolation ==
    /\ \A k \in Pos : Running(k) => (k \in BatchPos(i) /\ spc = "gather")
    /\ Cardinality({k \in Pos : Running(k)}) <= batch_size
    /\ \A k \in Pos : k > i + batch_size => tpc[k] = "idle"
    /\ \A k \in Pos : tpc[k] /= "idle" =>
          /\ \A j \in Pos : j <= i => tpc[j] = "done"
          /\ spc = "gather" => delays * batch_size = i

C11_Witness ==
    /\ i > 0
    /\ delays = 1
    /\ Cardinality({k \in Pos : tpc[k] = "fetching"}) = 2
    /\ \A k \in Pos : tpc[k] = "fetching" => k \in BatchPos(i)


\* C12: every inter-batch sleep lasts between 0.8 and 1.2 times the
\* configured delay, and the duration is not always the configured delay
\* itself.
C12_JitteredDelay ==
    /\ \A j \in 1..Len(slept) :
          8 * DefaultDelay <= 10 * slept[j] /\ 10 * slept[j] <= 12 * DefaultDelay
    /\ spc = "sleep" => \E x \in SleepDurations(DefaultDelay) : x /= DefaultDelay


\* C13: an exception raised by extract_metadata or analyze_content does not
\* leave the per-URL call: a finished per-URL call has returned a record,
\* never raised.
C13_AnalysisErrorCaught ==
    \A k \in Pos : tpc[k] = "done" => (~IsException(tres[k]) /\ tres[k].url = urls[k])

\* C15: BatchProcessor.process_all never ends by raising.
C15_SchedulerNeverRaises == mode = "batch" => spc /= "raised"


\* C14: a run of main.process_batch never stops early, whichever URLs fail:
\* it does not end by raising, it can always take a step until it has
\* returned, each finished URL has the record of its own fetch whatever its
\* batch neighbours did, and the returned list holds the record of every URL.
C14_RunCompletes ==
    mode = "main" =>
        /\ spc /= "raised"
        /\ spc /= "done" => ENABLED Next
        /\ \A k \in Pos :
              tpc[k] = "done" => tres[k] = MainRecord(urls[k], fetched[k])
        /\ spc = "done" =>
              /\ Len(results) = Len(urls)
              /\ i + batch_size >= Len(urls)
              /\ \A k \in Pos : tpc[k] = "done" /\ results[k] = tres[k]

\* Two batches in which every URL failed.
C14_Witness ==
    /\ mode = "main"
    /\ spc = "done"
    /\ batch_size = 2
    /\ Len(urls) = 3
    /\ delays = 1
    /\ \A k \in Pos : IsErrorRecord(results[k]) /\ results[k].url = urls[k]


\* C16: a fetch that reported failure after a navigation failed had retried
\* the navigation up to the cap: 3 navigations had failed, not just one.
C16_NavigationRetried ==
    (fpc = "returned" /\ navFailures > 0) => navFailures = 3


\* C17: after a run of main.process_batch every result record has status
\* success or error, an error record carries an error message, and the
\* reported counts satisfy succeeded + failed = total = number of input URLs.
C17_StatisticsAddUp ==
    (mode = "main" /\ spc = "done") =>
        /\ \A k \in 1..Len(results) :
              /\ results[k].status \in {"success", "error"}
              /\ results[k].status = "error" =>
                    (IsErrorRecord(results[k]) /\ results[k].error /= "")
        /\ Successful + Failed = Total
        /\ Total = Len(urls)

C17_Witness ==
    /\ mode = "main"
    /\ spc = "done"
    /\ Len(urls) = 3
    /\ Successful = 2
    /\ Failed = 1


IsToken(p) ==
    /\ atext[p] \notin Whitespace
    /\ p = 1 \/ atext[p - 1] \in Whitespace
    /\ p = Len(atext) \/ atext[p + 1] \in Whitespace

Occurrences(words) ==
    Cardinality({p \in 1..Len(atext) : IsToken(p) /\ LowerPiece(atext[p]) \in words})

\* C19: the sentiment label is positive when the lowercased whitespace tokens
\* hold strictly more positive-lexicon words than negative-lexicon words,
\* negative when strictly fewer, neutral when the counts are equal (both zero
\* included); great twice and bad once give positive.
C19_SentimentLabel ==
    apc = "done" =>
        LET pos == Occurrences({"good", "great", "excellent", "best", "amazing"})
            neg == Occurrences({"bad", "poor", "terrible", "worst", "awful"})
        IN  /\ pos > neg => sentiment = "positive"
            /\ pos < neg => sentiment = "negative"
            /\ pos = neg => sentiment = "neutral"
            /\ (Occurrences({"great"}) = 2 /\ Occurrences({"bad"}) = 1 /\ pos = 2 /\ neg = 1)
                   => sentiment = "positive"

C19_Witness ==
    /\ apc = "done"
    /\ Occurrences({"great"}) = 2
    /\ Occurrences({"bad"}) = 1
    /\ \E p \in 1..Len(atext) : atext[p] = "Great"
    /\ sentiment = "positive"

\* Whether an href carries a scheme prefix: letters, then "://".
Letters == {"h", "t", "p", "s", "f", "d", "a", "b", "c"}

HasScheme(h) ==
    \E n \in 1..Len(h) :
        /\ n + 2 <= Len(h)
        /\ n > 1
        /\ SubSeq(h, n, n + 2) = <<":", "/", "/">>
        /\ \A m \in 1..(n - 1) : h[m] \in Letters

\* C20: the links metric is a set: each absolute href of the markup's anchor
\* elements is in it exactly once, also when several anchors share the href,
\* and no href without a scheme prefix is in it.
C20_LinksAreASet ==
    apc = "done" =>
        /\ \A p, q \in 1..Len(links) : links[p] = links[q] => p = q
        /\ \A p \in 1..Len(links) : HasScheme(links[p])
        /\ \A p \in 1..Len(amarkup) :
               (amarkup[p].hasHref /\ HasScheme(amarkup[p].href))
                   => \E q \in 1..Len(links) : links[q] = amarkup[p].href

\* A finished sweep in which some selector matched text longer than 100
\* characters: the selector that ended it, or one below it.
LongTextMatched == passedOver \/ \E j \in 1..Len(sweepText) : sweepText[j] > 100

\* C24: a fetch in which, during some sweep, a selector of the priority list
\* matched an element with more than 100 characters returns Success; and a
\* selector that matched with 100 characters or fewer is followed, in the same
\* sweep, by the wait for the next selector of the list.
C24_LongTextWins ==
    /\ (fpc = "returned" /\ ~browserExc /\ LongTextMatched)
          => ReturnClass(ret) = "Success"
    /\ \A j \in 1..Len(seen) :
          (seen[j] /= NoneV /\ seen[j] <= 100 /\ j < 7 /\ j = Len(seen))
              => (fpc = "selector" /\ sel = j + 1)

\* C25: the retry sleep happens only between two sweeps: a fetch that
\* performed k sweeps has slept exactly k - 1 times, and no sleep follows the
\* last sweep.
C25_SleepsBetweenSweeps ==
    /\ (fpc = "returned" /\ sweeps >= 1) => sleeps = sweeps - 1
    /\ fpc = "retry_sleep" => sweeps < 3

C27_TextFromLastSweep ==
    (fpc = "returned" /\ ret /= NoneV) =>
        /\ Len(seen) >= 1
        /\ seen[Len(seen)] = ret

\* C28: every browser wait and navigation returning or timing out, a fetch
\* call ends, after at most 3 sweeps of at most 7 selector waits each; and a
\* run of main.process_batch over n URLs with batch size b ends, having
\* gathered ceil(n/b) batches.
C28_Terminates ==
    /\ [](sweeps <= 3 /\ Len(tried) <= 7)
    /\ (spc = "fetch") ~> (fpc = "returned")
    /\ (spc = "start") ~>
          (/\ spc = "done"
           /\ Len(urls) = 0 => i = 0 /\ delays = 0
           /\ Len(urls) > 0 =>
                 /\ i = (CeilDiv(Len(urls), batch_size) - 1) * batch_size
                 /\ delays + 1 = CeilDiv(Len(urls), batch_size))

\* A fetch that ended after 3 sweeps, the last of 7 selector waits.
C28_Witness ==
    /\ fpc = "returned"
    /\ sweeps = 3
    /\ Len(tried) = 7
    /\ ~browserExc

\* What a finished per-URL call reports: success is a returned record that is
\* not an error record (status success in main.process_url).
ReportsSuccess(r) ==
    /\ ~IsException(r)
    /\ ~IsErrorRecord(r)
    /\ "status" \in DOMAIN r => r.status = "success"

ReportsError(r) ==
    /\ ~IsException(r)
    /\ IsErrorRecord(r)
    /\ "status" \in DOMAIN r => r.status = "error"

\* C29: main.process_url and ContentProcessor.process_url classify every
\* fetch outcome the same way: a finished call of either reports success
\* exactly when fetch_content returned a non-empty string, and an error when
\* it returned None or the empty string.
C29_SameClassification ==
    \A k \in Pos :
        tpc[k] = "done" =>
            /\ ReportsSuccess(tres[k]) <=> ReturnClass(fetched[k]) = "Success"
            /\ ReturnClass(fetched[k]) \in {"Failure", "Empty"} => ReportsError(tres[k])

\* The elements of the content string, wherever they sit, that satisfy Match.
ElementsOfMarkup(matching) == {n \in 1..Len(doc) : doc[n].kind \in matching}

\* C21: sectionCount is the number of h1..h6 elements of the markup and
\* imageCount the number of its img elements, wherever they sit, also inside
\* nav or footer subtrees, whatever the text extraction did before the count.
C21_CountsWholeMarkup ==
    \A j \in 1..Len(metrics) :
        /\ metrics[j].section_count = Cardinality(ElementsOfMarkup(Headings))
        /\ metrics[j].image_count = Cardinality(ElementsOfMarkup(Images))

\* Two results of extract_metadata that agree in every field but timestamp.
SameButTimestamp(x, y) ==
    /\ IsException(x) <=> IsException(y)
    /\ ~IsException(x) =>
          /\ DOMAIN x = DOMAIN y
          /\ \A f \in DOMAIN x \ {"timestamp"} : x[f] = y[f]

FirstDescription ==
    IF ElementsOfMarkup(MetaDescriptions) = {}
        THEN 0
        ELSE CHOOSE n \in ElementsOfMarkup(MetaDescriptions) :
                 \A m \in ElementsOfMarkup(MetaDescriptions) : n <= m

\* C23: extract_metadata has no failure mode: it returns a record for every
\* markup; title is empty when there is no title element, description is
\* empty when there is no meta description element or it has no content
\* attribute, breadcrumbs is empty when there is no breadcrumb container.
C23_NoFailureMode ==
    \A j \in 1..Len(metadata) :
        /\ ~IsException(metadata[j])
        /\ DOMAIN metadata[j] = {"title", "description", "breadcrumbs", "url", "timestamp"}
        /\ ElementsOfMarkup(Titles) = {} => metadata[j].title = <<>>
        /\ (FirstDescription = 0 \/ ~doc[FirstDescription].kind.hasContent)
              => metadata[j].description = <<>>
        /\ ElementsOfMarkup(CrumbContainers) = {} => metadata[j].breadcrumbs = <<>>

\* A markup whose meta description has no content attribute, with neither
\* title nor breadcrumb container.
C23_Witness ==
    /\ Len(metadata) >= 1
    /\ FirstDescription /= 0
    /\ ~doc[FirstDescription].kind.hasContent
    /\ ElementsOfMarkup(Titles) = {}
    /\ ElementsOfMarkup(CrumbContainers) = {}
    /\ metadata[1].description = <<>>
    /\ metadata[1].title = <<>>
    /\ metadata[1].breadcrumbs = <<>>

\* The anchors of the markup that lie inside a breadcrumb container and whose
\* trimmed text is not empty, in document order.
CrumbAnchors ==
    InOrder({n \in ElementsOfMarkup(AnchorElements) :
                /\ \E m \in Ancestors(doc, n) : doc[m].kind \in CrumbContainers
                /\ Strip(doc[n].kind.text) /= <<>>})

\* C30: breadcrumbs lists the trimmed non-empty text of each anchor inside a
\* .breadcrumb or .nav-breadcrumb container exactly once and in document
\* order, also when one container is nested inside another.
C30_BreadcrumbsOnce ==
    \A j \in 1..Len(metadata) :
        ~IsException(metadata[j]) =>
            metadata[j].breadcrumbs =
                [p \in 1..Len(CrumbAnchors) |-> Strip(doc[CrumbAnchors[p]].kind.text)]
====
